---- MODULE Spec2Model ----
(***************************************************************************)
(* Model of the yarlang runtime value library (src/runtime/value.c,        *)
(* value.h) and of panic() in src/runtime/runtime.c.                       *)
(*                                                                         *)
(* The process is a record p = [mem, out, err, status, code, ret]:         *)
(*   mem    the GC heap, a sequence of blocks in allocation order; the     *)
(*          address of a block is its index, NULL is 0                     *)
(*   out    the printf calls made on stdout, in order                      *)
(*   err    the fprintf/vfprintf calls made on stderr, in order            *)
(*   status "running", "exited" (exit()) or "signalled" (killed by a trap) *)
(*   code   the exit status once exited                                    *)
(*   ret    the value returned by the last C function                      *)
(* Every C function is an operator from p to p.  A process that is no      *)
(* longer running executes nothing: every primitive step (allocation,      *)
(* store, write to a stream, return) leaves such a p as it is, so the      *)
(* statement that follows a call of exit() in the source is written in the *)
(* model exactly where it stands in the source.                            *)
(*                                                                         *)
(* A double is a record [k, s, n, d]: k = "fin" is the value s*n/d (s the  *)
(* sign bit, so that -0 exists), k = "inf" is s*infinity, k = "nan" is     *)
(* NaN.  Arithmetic on finite values is exact rational arithmetic, which   *)
(* is what IEEE arithmetic gives on the values the model reaches whenever  *)
(* the result is representable; no property below depends on rounding.     *)
(* A C string is a sequence of bytes ending with NUL.                      *)
(***************************************************************************)
EXTENDS Integers, Sequences, FiniteSets, TLC

\* ------------------------------------------------------------------ bounds
\* The number of library calls the host program makes in one run.
MaxCalls == 3
\* The largest numerator and denominator of a finite double of the model: a
\* call whose result is beyond it is not taken.
MaxMagnitude == 10000

\* --------------------------------------------------------------- constants
VAL_NIL == 0
VAL_BOOL == 1
VAL_NUMBER == 2
VAL_STRING == 3
VAL_FUNCTION == 4

NULL == 0
NUL == "NUL"

\* ----------------------------------------------------------------- doubles
RECURSIVE GCD(_, _)
GCD(a, b) == IF b = 0 THEN a ELSE GCD(b, a % b)

Abs(i) == IF i < 0 THEN 0 - i ELSE i

\* the finite double sign * num / den, in lowest terms (num >= 0, den > 0)
Fin(sign, num, den) ==
    LET g == GCD(num, den)
    IN  [k |-> "fin", s |-> sign, n |-> num \div g, d |-> den \div g]
Inf(s) == [k |-> "inf", s |-> s, n |-> 1, d |-> 0]
NaN == [k |-> "nan", s |-> 1, n |-> 0, d |-> 1]
\* the finite double num / den of a signed numerator; an exact zero is +0
Rat(num, den) == Fin(IF num < 0 THEN -1 ELSE 1, Abs(num), den)
PZero == Fin(1, 0, 1)
IsZero(x) == x.k = "fin" /\ x.n = 0
Signed(x) == x.s * x.n

\* unary minus of a double: flips the sign bit
DNeg(x) == IF x.k = "nan" THEN NaN ELSE [x EXCEPT !.s = 0 - x.s]

\* x + y of doubles
DAdd(x, y) ==
    IF x.k = "nan" \/ y.k = "nan" THEN NaN
    ELSE IF x.k = "inf" /\ y.k = "inf" THEN (IF x.s = y.s THEN x ELSE NaN)
    ELSE IF x.k = "inf" THEN x
    ELSE IF y.k = "inf" THEN y
    ELSE LET num == Signed(x) * y.d + Signed(y) * x.d
         IN  IF num = 0
             THEN Fin(IF x.s = -1 /\ y.s = -1 THEN -1 ELSE 1, 0, 1)
             ELSE Rat(num, x.d * y.d)

\* x - y of doubles
DSub(x, y) == DAdd(x, DNeg(y))

\* x * y of doubles
DMul(x, y) ==
    IF x.k = "nan" \/ y.k = "nan" THEN NaN
    ELSE IF (x.k = "inf" /\ IsZero(y)) \/ (IsZero(x) /\ y.k = "inf") THEN NaN
    ELSE IF x.k = "inf" \/ y.k = "inf" THEN Inf(x.s * y.s)
    ELSE Fin(x.s * y.s, x.n * y.n, x.d * y.d)

\* x / y of doubles
DDiv(x, y) ==
    IF x.k = "nan" \/ y.k = "nan" THEN NaN
    ELSE IF x.k = "inf" /\ y.k = "inf" THEN NaN
    ELSE IF IsZero(x) /\ IsZero(y) THEN NaN
    ELSE IF x.k = "inf" \/ IsZero(y) THEN Inf(x.s * y.s)
    ELSE IF y.k = "inf" THEN Fin(x.s * y.s, 0, 1)
    ELSE Fin(x.s * y.s, x.n * y.d, x.d * y.n)

\* x == y of doubles: NaN equals nothing, -0 equals +0
DEq(x, y) ==
    IF x.k = "nan" \/ y.k = "nan" THEN FALSE
    ELSE IF x.k = "inf" \/ y.k = "inf" THEN x.k = y.k /\ x.s = y.s
    ELSE Signed(x) * y.d = Signed(y) * x.d

\* x < y of doubles: false when either is NaN
DLt(x, y) ==
    IF x.k = "nan" \/ y.k = "nan" THEN FALSE
    ELSE IF x.k = "inf" THEN x.s = -1 /\ ~(y.k = "inf" /\ y.s = -1)
    ELSE IF y.k = "inf" THEN y.s = 1
    ELSE Signed(x) * y.d < Signed(y) * x.d

DGt(x, y) == DLt(y, x)
DLe(x, y) == DLt(x, y) \/ DEq(x, y)
DGe(x, y) == DLt(y, x) \/ DEq(x, y)

\* (long)x is defined only for a finite x (in the range of long): it
\* discards the fraction, truncating toward zero
LongDefined(x) == x.k = "fin"
ToLong(x) == x.s * (x.n \div x.d)
\* (double)i of a long
FromLong(i) == Rat(i, 1)
\* i % j of longs, j # 0: the remainder has the sign of the dividend
LongRem(i, j) ==
    LET m == Abs(i) % Abs(j) IN IF i < 0 THEN 0 - m ELSE m

\* ----------------------------------------------------------------- strings
\* string literals of the source
Lit_nil == <<"n", "i", "l", NUL>>
Lit_bool == <<"b", "o", "o", "l", NUL>>
Lit_number == <<"n", "u", "m", "b", "e", "r", NUL>>
Lit_string == <<"s", "t", "r", "i", "n", "g", NUL>>
Lit_function == <<"f", "u", "n", "c", "t", "i", "o", "n", NUL>>
Lit_unknown == <<"u", "n", "k", "n", "o", "w", "n", NUL>>

\* strlen: the number of bytes before the first NUL
RECURSIVE strlen(_)
strlen(s) == IF s[1] = NUL THEN 0 ELSE 1 + strlen(Tail(s))

\* the bytes of a C string, without the terminator
Content(s) == SubSeq(s, 1, strlen(s))

\* strcmp(a, b) == 0
StrEqual(a, b) == Content(a) = Content(b)

\* ------------------------------------------------------------------ memory
Running(p) == p.status = "running"

\* a zero-filled block, as GC_malloc returns it
ZeroValue ==
    [kind |-> "Value", type |-> VAL_NIL, boolean |-> FALSE, number |-> PZero,
     string |-> NULL, function |-> NULL]
ZeroFunctionValue ==
    [kind |-> "FunctionValue", ptr |-> NULL, is_native |-> FALSE, arity |-> 0]
ZeroChars(size) == [kind |-> "chars", bytes |-> [i \in 1..size |-> NUL]]

\* return x to the caller
Return(p, x) == IF Running(p) THEN [p EXCEPT !.ret = x] ELSE p

\* yar_alloc: a new zero-filled block at a fresh address
yar_alloc(p, blk) ==
    IF Running(p)
    THEN [p EXCEPT !.mem = Append(@, blk), !.ret = Len(p.mem) + 1]
    ELSE p

\* the store v->field = x
Store(p, v, field, x) ==
    IF Running(p) THEN [p EXCEPT !.mem[v][field] = x] ELSE p

\* strcpy(dest, src): the bytes of src and its terminator, from dest[1] on
strcpy(p, dest, src) ==
    IF Running(p)
    THEN [p EXCEPT !.mem[dest].bytes =
            [i \in DOMAIN @ |-> IF i <= strlen(src) + 1 THEN src[i] ELSE @[i]]]
    ELSE p

\* strcat(dest, src): the bytes of src and its terminator, from the
\* terminator of dest on
strcat(p, dest, src) ==
    IF Running(p)
    THEN LET at == strlen(p.mem[dest].bytes)
         IN  [p EXCEPT !.mem[dest].bytes =
                [i \in DOMAIN @ |->
                    IF i > at /\ i <= at + strlen(src) + 1
                    THEN src[i - at] ELSE @[i]]]
    ELSE p

\* printf on stdout
printf(p, fmt, args) ==
    IF Running(p)
    THEN [p EXCEPT !.out = Append(@, [fmt |-> fmt, args |-> args])]
    ELSE p

\* fprintf / vfprintf on stderr
fprintf(p, fmt, args) ==
    IF Running(p)
    THEN [p EXCEPT !.err = Append(@, [fmt |-> fmt, args |-> args])]
    ELSE p

\* exit(status)
exit(p, st) ==
    IF Running(p) THEN [p EXCEPT !.status = "exited", !.code = st] ELSE p

\* the process is killed by a trap (SIGFPE)
Trap(p) == IF Running(p) THEN [p EXCEPT !.status = "signalled"] ELSE p

\* ------------------------------------------------------------ constructors
yar_nil(p) ==
    LET p1 == yar_alloc(p, ZeroValue)
        v == p1.ret
    IN  Return(Store(p1, v, "type", VAL_NIL), v)

yar_bool(p, value) ==
    LET p1 == yar_alloc(p, ZeroValue)
        v == p1.ret
        p2 == Store(p1, v, "type", VAL_BOOL)
    IN  Return(Store(p2, v, "boolean", value), v)

yar_number(p, value) ==
    LET p1 == yar_alloc(p, ZeroValue)
        v == p1.ret
        p2 == Store(p1, v, "type", VAL_NUMBER)
    IN  Return(Store(p2, v, "number", value), v)

yar_string(p, str) ==
    LET p1 == yar_alloc(p, ZeroValue)
        v == p1.ret
        p2 == Store(p1, v, "type", VAL_STRING)
        len == strlen(str)
        p3 == yar_alloc(p2, ZeroChars(len + 1))
        p4 == Store(p3, v, "string", p3.ret)
    IN  Return(strcpy(p4, p3.ret, str), v)

yar_function(p, ptr, is_native, arity) ==
    LET p1 == yar_alloc(p, ZeroValue)
        v == p1.ret
        p2 == Store(p1, v, "type", VAL_FUNCTION)
        p3 == yar_alloc(p2, ZeroFunctionValue)
        f == p3.ret
        p4 == Store(p3, v, "function", f)
        p5 == Store(p4, f, "ptr", ptr)
        p6 == Store(p5, f, "is_native", is_native)
    IN  Return(Store(p6, f, "arity", arity), v)

\* ------------------------------------------------------------- type checks
yar_is_nil(p, v) == p.mem[v].type = VAL_NIL
yar_is_bool(p, v) == p.mem[v].type = VAL_BOOL
yar_is_number(p, v) == p.mem[v].type = VAL_NUMBER
yar_is_string(p, v) == p.mem[v].type = VAL_STRING
yar_is_function(p, v) == p.mem[v].type = VAL_FUNCTION

\* mutant: the number zero is falsy
yar_is_truthy_zero_falsy(p, v) ==
    IF yar_is_nil(p, v) THEN FALSE
    ELSE IF yar_is_bool(p, v) THEN p.mem[v].boolean
    ELSE IF yar_is_number(p, v) THEN ~IsZero(p.mem[v].number)
    ELSE TRUE

yar_is_truthy(p, v) ==
    IF yar_is_nil(p, v) THEN FALSE
    ELSE IF yar_is_bool(p, v) THEN p.mem[v].boolean
    ELSE TRUE

\* mutant: the case of VAL_BOOL falls through to the next one
yar_type_name_fallthrough(p, v) ==
    CASE p.mem[v].type = VAL_NIL -> Lit_nil
      [] p.mem[v].type = VAL_BOOL -> Lit_number
      [] p.mem[v].type = VAL_NUMBER -> Lit_number
      [] p.mem[v].type = VAL_STRING -> Lit_string
      [] p.mem[v].type = VAL_FUNCTION -> Lit_function
      [] OTHER -> Lit_unknown

yar_type_name(p, v) ==
    CASE p.mem[v].type = VAL_NIL -> Lit_nil
      [] p.mem[v].type = VAL_BOOL -> Lit_bool
      [] p.mem[v].type = VAL_NUMBER -> Lit_number
      [] p.mem[v].type = VAL_STRING -> Lit_string
      [] p.mem[v].type = VAL_FUNCTION -> Lit_function
      [] OTHER -> Lit_unknown

\* ---------------------------------------------------------- error handling
\* mutant: the report is written but the process is not terminated
yar_error_returns(p, fmt, args) ==
    LET p1 == fprintf(p, "Runtime error: ", <<>>)
        p2 == fprintf(p1, fmt, args)
    IN  fprintf(p2, "\n", <<>>)

yar_error(p, fmt, args) ==
    LET p1 == fprintf(p, "Runtime error: ", <<>>)
        p2 == fprintf(p1, fmt, args)
        p3 == fprintf(p2, "\n", <<>>)
    IN  exit(p3, 1)

\* panic of runtime.c
panic(p, msg) == exit(fprintf(p, "panic: %s\n", <<msg>>), 1)

\* --------------------------------------------------------------- operators
\* the C string of the String value v
Str(p, v) == p.mem[p.mem[v].string].bytes
\* the double of the Number value v
Num(p, v) == p.mem[v].number

\* mutant: the operands of the concatenation are copied in the wrong order
yar_add_reversed(p, a, b) ==
    IF yar_is_number(p, a) /\ yar_is_number(p, b)
    THEN yar_number(p, DAdd(Num(p, a), Num(p, b)))
    ELSE IF yar_is_string(p, a) /\ yar_is_string(p, b)
    THEN LET len == strlen(Str(p, a)) + strlen(Str(p, b))
             p1 == yar_alloc(p, ZeroChars(len + 1))
             result == p1.ret
             p2 == strcpy(p1, result, Str(p1, b))
             p3 == strcat(p2, result, Str(p2, a))
             p4 == yar_alloc(p3, ZeroValue)
             v == p4.ret
             p5 == Store(p4, v, "type", VAL_STRING)
         IN  Return(Store(p5, v, "string", result), v)
    ELSE yar_nil(yar_error(p, "Cannot add %s and %s",
                           <<yar_type_name(p, a), yar_type_name(p, b)>>))

yar_add(p, a, b) ==
    IF yar_is_number(p, a) /\ yar_is_number(p, b)
    THEN yar_number(p, DAdd(Num(p, a), Num(p, b)))
    ELSE IF yar_is_string(p, a) /\ yar_is_string(p, b)
    THEN LET len == strlen(Str(p, a)) + strlen(Str(p, b))
             p1 == yar_alloc(p, ZeroChars(len + 1))
             result == p1.ret
             p2 == strcpy(p1, result, Str(p1, a))
             p3 == strcat(p2, result, Str(p2, b))
             p4 == yar_alloc(p3, ZeroValue)
             v == p4.ret
             p5 == Store(p4, v, "type", VAL_STRING)
         IN  Return(Store(p5, v, "string", result), v)
    ELSE yar_nil(yar_error(p, "Cannot add %s and %s",
                           <<yar_type_name(p, a), yar_type_name(p, b)>>))

yar_subtract(p, a, b) ==
    IF yar_is_number(p, a) /\ yar_is_number(p, b)
    THEN yar_number(p, DSub(Num(p, a), Num(p, b)))
    ELSE yar_nil(yar_error(p, "Cannot subtract %s and %s",
                           <<yar_type_name(p, a), yar_type_name(p, b)>>))

yar_multiply(p, a, b) ==
    IF yar_is_number(p, a) /\ yar_is_number(p, b)
    THEN yar_number(p, DMul(Num(p, a), Num(p, b)))
    ELSE yar_nil(yar_error(p, "Cannot multiply %s and %s",
                           <<yar_type_name(p, a), yar_type_name(p, b)>>))

\* mutant: the divisor is not compared with zero
yar_divide_unchecked(p, a, b) ==
    IF yar_is_number(p, a) /\ yar_is_number(p, b)
    THEN yar_number(p, DDiv(Num(p, a), Num(p, b)))
    ELSE yar_nil(yar_error(p, "Cannot divide %s and %s",
                           <<yar_type_name(p, a), yar_type_name(p, b)>>))

yar_divide(p, a, b) ==
    IF yar_is_number(p, a) /\ yar_is_number(p, b)
    THEN IF DEq(Num(p, b), PZero)
         THEN yar_nil(yar_error(p, "Division by zero", <<>>))
         ELSE yar_number(p, DDiv(Num(p, a), Num(p, b)))
    ELSE yar_nil(yar_error(p, "Cannot divide %s and %s",
                           <<yar_type_name(p, a), yar_type_name(p, b)>>))

\* The undefined behaviour of (long)x % (long)y.  The conversion of a NaN or
\* an infinity to long is undefined: the build yields some long (ub.a for
\* the left operand, ub.b for the right one).  The remainder of a division
\* by zero is undefined: the build either traps (SIGFPE, as the x86 idiv
\* does) or goes on with some long ub.rem (as the AArch64 sdiv/msub pair
\* does).
UBLongs == {-1, 0, 7}
UBOutcomes == [a : UBLongs, b : UBLongs, trap : BOOLEAN, rem : UBLongs]
NoUB == [a |-> 0, b |-> 0, trap |-> FALSE, rem |-> 0]

\* (long)x % (long)y is defined
RemDefined(x, y) == LongDefined(x) /\ LongDefined(y) /\ ToLong(y) # 0

yar_modulo(p, a, b, ub) ==
    IF yar_is_number(p, a) /\ yar_is_number(p, b)
    THEN LET la == IF LongDefined(Num(p, a)) THEN ToLong(Num(p, a)) ELSE ub.a
             lb == IF LongDefined(Num(p, b)) THEN ToLong(Num(p, b)) ELSE ub.b
         IN  IF lb # 0 THEN yar_number(p, FromLong(LongRem(la, lb)))
             ELSE IF ub.trap THEN Trap(p)
             ELSE yar_number(p, FromLong(ub.rem))
    ELSE yar_nil(yar_error(p, "Cannot modulo %s and %s",
                           <<yar_type_name(p, a), yar_type_name(p, b)>>))

\* mutant: Functions are compared by identity
yar_eq_identity(p, a, b) ==
    IF p.mem[a].type # p.mem[b].type THEN yar_bool(p, FALSE)
    ELSE CASE p.mem[a].type = VAL_NIL -> yar_bool(p, TRUE)
           [] p.mem[a].type = VAL_BOOL ->
                yar_bool(p, p.mem[a].boolean = p.mem[b].boolean)
           [] p.mem[a].type = VAL_NUMBER ->
                yar_bool(p, DEq(Num(p, a), Num(p, b)))
           [] p.mem[a].type = VAL_STRING ->
                yar_bool(p, StrEqual(Str(p, a), Str(p, b)))
           [] OTHER -> yar_bool(p, p.mem[a].function = p.mem[b].function)

yar_eq(p, a, b) ==
    IF p.mem[a].type # p.mem[b].type THEN yar_bool(p, FALSE)
    ELSE CASE p.mem[a].type = VAL_NIL -> yar_bool(p, TRUE)
           [] p.mem[a].type = VAL_BOOL ->
                yar_bool(p, p.mem[a].boolean = p.mem[b].boolean)
           [] p.mem[a].type = VAL_NUMBER ->
                yar_bool(p, DEq(Num(p, a), Num(p, b)))
           [] p.mem[a].type = VAL_STRING ->
                yar_bool(p, StrEqual(Str(p, a), Str(p, b)))
           [] OTHER -> yar_bool(p, FALSE)

yar_neq(p, a, b) ==
    LET p1 == yar_eq(p, a, b)
        eq == p1.ret
    IN  yar_bool(p1, ~p1.mem[eq].boolean)

yar_lt(p, a, b) ==
    IF yar_is_number(p, a) /\ yar_is_number(p, b)
    THEN yar_bool(p, DLt(Num(p, a), Num(p, b)))
    ELSE yar_bool(yar_error(p, "Cannot compare %s and %s",
                            <<yar_type_name(p, a), yar_type_name(p, b)>>), FALSE)

yar_gt(p, a, b) ==
    IF yar_is_number(p, a) /\ yar_is_number(p, b)
    THEN yar_bool(p, DGt(Num(p, a), Num(p, b)))
    ELSE yar_bool(yar_error(p, "Cannot compare %s and %s",
                            <<yar_type_name(p, a), yar_type_name(p, b)>>), FALSE)

yar_lte(p, a, b) ==
    IF yar_is_number(p, a) /\ yar_is_number(p, b)
    THEN yar_bool(p, DLe(Num(p, a), Num(p, b)))
    ELSE yar_bool(yar_error(p, "Cannot compare %s and %s",
                            <<yar_type_name(p, a), yar_type_name(p, b)>>), FALSE)

yar_gte(p, a, b) ==
    IF yar_is_number(p, a) /\ yar_is_number(p, b)
    THEN yar_bool(p, DGe(Num(p, a), Num(p, b)))
    ELSE yar_bool(yar_error(p, "Cannot compare %s and %s",
                            <<yar_type_name(p, a), yar_type_name(p, b)>>), FALSE)

yar_and(p, a, b) == yar_bool(p, yar_is_truthy(p, a) /\ yar_is_truthy(p, b))

yar_or(p, a, b) == yar_bool(p, yar_is_truthy(p, a) \/ yar_is_truthy(p, b))

yar_not(p, v) == yar_bool(p, ~yar_is_truthy(p, v))

\* mutant: the operand is negated in place and returned
yar_negate_in_place(p, v) ==
    IF yar_is_number(p, v)
    THEN Return(Store(p, v, "number", DNeg(Num(p, v))), v)
    ELSE yar_nil(yar_error(p, "Cannot negate %s", <<yar_type_name(p, v)>>))

yar_negate(p, v) ==
    IF yar_is_number(p, v)
    THEN yar_number(p, DNeg(Num(p, v)))
    ELSE yar_nil(yar_error(p, "Cannot negate %s", <<yar_type_name(p, v)>>))

\* ------------------------------------------------------ built-in functions
yar_print(p, v) ==
    CASE p.mem[v].type = VAL_NIL -> printf(p, "nil", <<>>)
      [] p.mem[v].type = VAL_BOOL ->
            printf(p, "%s", <<IF p.mem[v].boolean THEN "true" ELSE "false">>)
      [] p.mem[v].type = VAL_NUMBER -> printf(p, "%g", <<Num(p, v)>>)
      [] p.mem[v].type = VAL_STRING -> printf(p, "%s", <<Str(p, v)>>)
      [] p.mem[v].type = VAL_FUNCTION -> printf(p, "<function>", <<>>)
      [] OTHER -> p

yar_println(p, v) == printf(yar_print(p, v), "\n", <<>>)

\* mutant: the length of a value that is not a String is zero
yar_len_lenient(p, v) ==
    IF yar_is_string(p, v)
    THEN yar_number(p, FromLong(strlen(Str(p, v))))
    ELSE yar_number(p, FromLong(0))

yar_len(p, v) ==
    IF yar_is_string(p, v)
    THEN yar_number(p, FromLong(strlen(Str(p, v))))
    ELSE yar_nil(yar_error(p, "len() requires string, got %s",
                           <<yar_type_name(p, v)>>))

yar_type(p, v) == yar_string(p, yar_type_name(p, v))

\* ------------------------------------------------------------ state machine
\* mem, out, err, status, code: the process (see the head of the module);
\* call: the last library call the host program made, with its operands and
\* the value it returned (NULL when it did not return) and the size of the
\* heap when it was made (brk); calls: the number of calls made
VARIABLES mem, out, err, status, code, call, calls

vars == <<mem, out, err, status, code, call, calls>>

\* what the host program passes to the constructors
Bools == {TRUE, FALSE}
Numbers == {PZero, Rat(1, 2), Rat(5, 2), Rat(79, 10), NaN}
Strings == {<<NUL>>, <<"a", "b", NUL>>, <<"c", NUL>>}
Functions == {[ptr |-> 1, is_native |-> TRUE, arity |-> 2]}
PanicMessages == {<<"o", "o", "p", "s", NUL>>}

Tag(v) == mem[v].type
IsNum(v) == Tag(v) = VAL_NUMBER
IsStr(v) == Tag(v) = VAL_STRING

\* the Value references the host program holds
Values(m) == {v \in 1..Len(m) : m[v].kind = "Value"}

Proc ==
    [mem |-> mem, out |-> out, err |-> err, status |-> status, code |-> code,
     ret |-> NULL]

Init ==
    /\ mem = <<>>
    /\ out = <<>>
    /\ err = <<>>
    /\ status = "running"
    /\ code = 0
    /\ call = [fn |-> "none", a |-> NULL, b |-> NULL, ret |-> NULL, brk |-> 0]
    /\ calls = 0

\* every double of the heap is within the magnitude the model covers
InRange(m) ==
    \A v \in Values(m) : m[v].number.n <= MaxMagnitude /\ m[v].number.d <= MaxMagnitude

\* the host program calls fn on a and b; q is the process after the call
Do(fn, a, b, q) ==
    /\ status = "running"
    /\ calls < MaxCalls
    /\ InRange(q.mem)
    /\ mem' = q.mem
    /\ out' = q.out
    /\ err' = q.err
    /\ status' = q.status
    /\ code' = q.code
    /\ call' = [fn |-> fn, a |-> a, b |-> b,
                ret |-> IF Running(q) THEN q.ret ELSE NULL, brk |-> Len(mem)]
    /\ calls' = calls + 1

Call_nil == Do("yar_nil", NULL, NULL, yar_nil(Proc))

Call_bool == \E value \in Bools : Do("yar_bool", NULL, NULL, yar_bool(Proc, value))

Call_number ==
    \E value \in Numbers : Do("yar_number", NULL, NULL, yar_number(Proc, value))

Call_string ==
    \E str \in Strings : Do("yar_string", NULL, NULL, yar_string(Proc, str))

Call_function ==
    \E f \in Functions :
        Do("yar_function", NULL, NULL,
           yar_function(Proc, f.ptr, f.is_native, f.arity))

Call_add ==
    \E a \in Values(mem), b \in Values(mem) :
        Do("yar_add", a, b, yar_add(Proc, a, b))

Call_subtract ==
    \E a \in Values(mem), b \in Values(mem) :
        Do("yar_subtract", a, b, yar_subtract(Proc, a, b))

Call_multiply ==
    \E a \in Values(mem), b \in Values(mem) :
        Do("yar_multiply", a, b, yar_multiply(Proc, a, b))

Call_divide ==
    \E a \in Values(mem), b \in Values(mem) :
        Do("yar_divide", a, b, yar_divide(Proc, a, b))

Call_eq ==
    \E a \in Values(mem), b \in Values(mem) :
        Do("yar_eq", a, b, yar_eq(Proc, a, b))

Call_neq ==
    \E a \in Values(mem), b \in Values(mem) :
        Do("yar_neq", a, b, yar_neq(Proc, a, b))

Call_lt ==
    \E a \in Values(mem), b \in Values(mem) :
        Do("yar_lt", a, b, yar_lt(Proc, a, b))

Call_gt ==
    \E a \in Values(mem), b \in Values(mem) :
        Do("yar_gt", a, b, yar_gt(Proc, a, b))

Call_lte ==
    \E a \in Values(mem), b \in Values(mem) :
        Do("yar_lte", a, b, yar_lte(Proc, a, b))

Call_gte ==
    \E a \in Values(mem), b \in Values(mem) :
        Do("yar_gte", a, b, yar_gte(Proc, a, b))

Call_and ==
    \E a \in Values(mem), b \in Values(mem) :
        Do("yar_and", a, b, yar_and(Proc, a, b))

Call_or ==
    \E a \in Values(mem), b \in Values(mem) :
        Do("yar_or", a, b, yar_or(Proc, a, b))

\* the build's choice matters only where the behaviour is undefined
Call_modulo ==
    \E a \in Values(mem), b \in Values(mem) :
        \E ub \in IF IsNum(a) /\ IsNum(b) /\ ~RemDefined(mem[a].number, mem[b].number)
                   THEN UBOutcomes ELSE {NoUB} :
            Do("yar_modulo", a, b, yar_modulo(Proc, a, b, ub))

Call_not == \E v \in Values(mem) : Do("yar_not", v, NULL, yar_not(Proc, v))

Call_negate == \E v \in Values(mem) : Do("yar_negate", v, NULL, yar_negate(Proc, v))

Call_print == \E v \in Values(mem) : Do("yar_print", v, NULL, yar_print(Proc, v))

Call_println == \E v \in Values(mem) : Do("yar_println", v, NULL, yar_println(Proc, v))

Call_len == \E v \in Values(mem) : Do("yar_len", v, NULL, yar_len(Proc, v))

Call_type == \E v \in Values(mem) : Do("yar_type", v, NULL, yar_type(Proc, v))

Call_panic == \E msg \in PanicMessages : Do("panic", NULL, NULL, panic(Proc, msg))

Next ==
    \/ Call_nil
    \/ Call_bool
    \/ Call_number
    \/ Call_string
    \/ Call_function
    \/ Call_add
    \/ Call_subtract
    \/ Call_multiply
    \/ Call_divide
    \/ Call_eq
    \/ Call_neq
    \/ Call_lt
    \/ Call_gt
    \/ Call_lte
    \/ Call_gte
    \/ Call_and
    \/ Call_or
    \/ Call_modulo
    \/ Call_not
    \/ Call_negate
    \/ Call_print
    \/ Call_println
    \/ Call_len
    \/ Call_type
    \/ Call_panic

Spec == Init /\ [][Next]_vars

TypeOK ==
    /\ status \in {"running", "exited", "signalled"}
    /\ calls \in 0..MaxCalls
    /\ \A v \in Values(mem) : mem[v].type \in VAL_NIL..VAL_FUNCTION

\* ================================================================== claims
\* the vocabulary of the claims: the label of a type tag, the variant of an
\* operand, what it means for the last call to have returned a value or to
\* have raised a fatal error
Label(t) ==
    CASE t = VAL_NIL -> <<"n", "i", "l">>
      [] t = VAL_BOOL -> <<"b", "o", "o", "l">>
      [] t = VAL_NUMBER -> <<"n", "u", "m", "b", "e", "r">>
      [] t = VAL_STRING -> <<"s", "t", "r", "i", "n", "g">>
      [] t = VAL_FUNCTION -> <<"f", "u", "n", "c", "t", "i", "o", "n">>

Text(v) == Content(mem[mem[v].string].bytes)

\* the last call returned a Value allocated during the call
Returned ==
    /\ status = "running"
    /\ call.ret \in Values(mem)
    /\ call.ret > call.brk

\* the last call ended the process through yar_error with the message fmt
\* applied to the strings labels, and returned nothing
Raised(fmt, labels) ==
    /\ status = "exited"
    /\ code = 1
    /\ call.ret = NULL
    /\ Len(err) = 3
    /\ err[1] = [fmt |-> "Runtime error: ", args |-> <<>>]
    /\ err[2].fmt = fmt
    /\ [i \in 1..Len(err[2].args) |-> Content(err[2].args[i])] = labels
    /\ err[3] = [fmt |-> "\n", args |-> <<>>]

\* the message of the type mismatch of each operator
Mismatch ==
    [yar_add |-> "Cannot add %s and %s",
     yar_subtract |-> "Cannot subtract %s and %s",
     yar_multiply |-> "Cannot multiply %s and %s",
     yar_divide |-> "Cannot divide %s and %s",
     yar_modulo |-> "Cannot modulo %s and %s",
     yar_lt |-> "Cannot compare %s and %s",
     yar_gt |-> "Cannot compare %s and %s",
     yar_lte |-> "Cannot compare %s and %s",
     yar_gte |-> "Cannot compare %s and %s",
     yar_negate |-> "Cannot negate %s",
     yar_len |-> "len() requires string, got %s"]

BinaryOperators ==
    {"yar_add", "yar_subtract", "yar_multiply", "yar_divide", "yar_modulo",
     "yar_eq", "yar_neq", "yar_lt", "yar_gt", "yar_lte", "yar_gte",
     "yar_and", "yar_or"}
UnaryOperators == {"yar_not", "yar_negate"}

\* the type names of the operands of the last call, in order
OperandLabels ==
    IF call.b = NULL THEN <<Label(Tag(call.a))>>
    ELSE <<Label(Tag(call.a)), Label(Tag(call.b))>>

\* the last call raised a fatal error that an operator can raise
RaisedByOperator ==
    \/ /\ call.fn \in DOMAIN Mismatch
       /\ Raised(Mismatch[call.fn], OperandLabels)
    \/ /\ call.fn = "yar_divide"
       /\ Raised("Division by zero", <<>>)

\* C1: every operator call either returns a new Value or raises a fatal
\* error through yar_error with the message of the operator and the type
\* names of its operands; nothing else happens, for no operands.
C1_OperatorsTotal ==
    call.fn \in BinaryOperators \cup UnaryOperators => Returned \/ RaisedByOperator

\* C2: once yar_error is invoked the process has written exactly one line
\* "Runtime error: <message>" to stderr and has exited with status 1; the
\* call that raised it returned nothing and built no fallback value, and no
\* later call changes anything.  A process that exited with status 1
\* without a call of panic has raised a fatal error, and one that has
\* written nothing to stderr has not exited.
ErrorLine ==
    /\ Len(err) = 3
    /\ err[1] = [fmt |-> "Runtime error: ", args |-> <<>>]
    /\ err[2].fmt \in {Mismatch[f] : f \in DOMAIN Mismatch} \cup {"Division by zero"}
    /\ err[3] = [fmt |-> "\n", args |-> <<>>]

C2_Terminated ==
    /\ err # <<>> /\ call.fn # "panic" =>
            /\ ErrorLine
            /\ status = "exited"
            /\ code = 1
            /\ call.ret = NULL
            /\ Len(mem) = call.brk
    /\ status = "exited" /\ call.fn # "panic" => code = 1 /\ ErrorLine
    /\ err = <<>> => status # "exited" /\ code = 0

C2_NothingAfter == status # "running" => UNCHANGED vars

C2_FatalErrorTerminates == [](C2_Terminated) /\ [][C2_NothingAfter]_vars

C2_Witness ==
    /\ call.fn = "yar_add"
    /\ status = "exited"
    /\ code = 1
    /\ err # <<>>
    /\ calls < MaxCalls

\* C3: the value a constructor returns satisfies exactly the predicate of the
\* constructor's variant, yar_type_name gives the label of that variant, and
\* yar_type returns a String with that label as its content.
Constructors ==
    [yar_nil |-> VAL_NIL, yar_bool |-> VAL_BOOL, yar_number |-> VAL_NUMBER,
     yar_string |-> VAL_STRING, yar_function |-> VAL_FUNCTION]

Predicates(v) ==
    <<yar_is_nil(Proc, v), yar_is_bool(Proc, v), yar_is_number(Proc, v),
      yar_is_string(Proc, v), yar_is_function(Proc, v)>>

\* the content of the String that yar_type returns for v
TypeOf(v) ==
    LET q == yar_type(Proc, v)
    IN  IF q.mem[q.ret].type = VAL_STRING
        THEN Content(q.mem[q.mem[q.ret].string].bytes)
        ELSE <<>>

C3_ConstructorsAndTypeNames ==
    /\ call.fn \in DOMAIN Constructors =>
            /\ Returned
            /\ Predicates(call.ret) = [i \in 1..5 |-> i - 1 = Constructors[call.fn]]
            /\ Content(yar_type_name(Proc, call.ret)) = Label(Constructors[call.fn])
            /\ TypeOf(call.ret) = Label(Constructors[call.fn])
    /\ call.fn = "yar_type" =>
            /\ Returned
            /\ IsStr(call.ret)
            /\ Text(call.ret) = Label(Tag(call.a))

C3_Witness ==
    /\ call.fn = "yar_type"
    /\ mem[call.a].type = VAL_FUNCTION
    /\ Text(call.ret) = <<"f", "u", "n", "c", "t", "i", "o", "n">>

\* C4: yar_is_truthy is false for Nil, the payload for a Bool and true for
\* every Number, String and Function; yar_and, yar_or and yar_not return the
\* Bool that combines the truthiness of their operands and never fail.
Truthy(v) ==
    CASE Tag(v) = VAL_NIL -> FALSE
      [] Tag(v) = VAL_BOOL -> mem[v].boolean
      [] Tag(v) \in {VAL_NUMBER, VAL_STRING, VAL_FUNCTION} -> TRUE

ReturnedBool(x) ==
    /\ Returned
    /\ Tag(call.ret) = VAL_BOOL
    /\ mem[call.ret].boolean = x

C4_Truthiness ==
    /\ status = "running" =>
            \A v \in Values(mem) : yar_is_truthy(Proc, v) = Truthy(v)
    /\ call.fn = "yar_and" => ReturnedBool(Truthy(call.a) /\ Truthy(call.b))
    /\ call.fn = "yar_or" => ReturnedBool(Truthy(call.a) \/ Truthy(call.b))
    /\ call.fn = "yar_not" => ReturnedBool(~Truthy(call.a))

C4_Witness ==
    /\ call.fn = "yar_and"
    /\ IsNum(call.a) /\ mem[call.a].number = PZero
    /\ IsStr(call.b) /\ Text(call.b) = <<>>
    /\ ReturnedBool(TRUE)

\* C5: yar_eq never fails and returns a Bool: false for operands of
\* different variants, true for two Nils, equality of the payloads for
\* Bools, numeric == for Numbers, equality of the bytes for Strings, false
\* for two Functions even when they are the same value; it is reflexive
\* (but for NaN and Functions) and symmetric: the call with the operands
\* exchanged returns the same.  yar_neq returns the negation of yar_eq.
Equal(a, b) ==
    /\ Tag(a) = Tag(b)
    /\ CASE Tag(a) = VAL_NIL -> TRUE
         [] Tag(a) = VAL_BOOL -> mem[a].boolean = mem[b].boolean
         [] Tag(a) = VAL_NUMBER -> DEq(mem[a].number, mem[b].number)
         [] Tag(a) = VAL_STRING -> Text(a) = Text(b)
         [] Tag(a) = VAL_FUNCTION -> FALSE

\* the payload of the Bool that yar_eq returns for a and b
EqOf(a, b) == LET q == yar_eq(Proc, a, b) IN q.mem[q.ret].boolean

C5_Equality ==
    /\ call.fn = "yar_eq" =>
            /\ ReturnedBool(Equal(call.a, call.b))
            /\ EqOf(call.b, call.a) = mem[call.ret].boolean
            /\ Tag(call.a) # Tag(call.b) => ReturnedBool(FALSE)
            /\ Tag(call.a) = VAL_FUNCTION => ReturnedBool(FALSE)
            /\ call.a = call.b /\ Tag(call.a) \in {VAL_NIL, VAL_BOOL, VAL_STRING} =>
                    ReturnedBool(TRUE)
            /\ call.a = call.b /\ IsNum(call.a) /\ mem[call.a].number # NaN =>
                    ReturnedBool(TRUE)
    /\ call.fn = "yar_neq" =>
            /\ ReturnedBool(~Equal(call.a, call.b))
            /\ EqOf(call.a, call.b) = ~mem[call.ret].boolean

C5_Witness ==
    /\ call.fn = "yar_eq"
    /\ call.a = call.b
    /\ Tag(call.a) = VAL_FUNCTION
    /\ ReturnedBool(FALSE)

\* C6: yar_add returns Number(x + y) for two Numbers, a new String with the
\* bytes of the left operand followed by those of the right one for two
\* Strings, and for every other pair of variants raises the fatal error
\* "Cannot add <left type> and <right type>" and returns nothing.
C6_Add ==
    call.fn = "yar_add" =>
        IF IsNum(call.a) /\ IsNum(call.b)
        THEN /\ Returned
             /\ IsNum(call.ret)
             /\ mem[call.ret].number = DAdd(mem[call.a].number, mem[call.b].number)
        ELSE IF IsStr(call.a) /\ IsStr(call.b)
        THEN /\ Returned
             /\ IsStr(call.ret)
             /\ Text(call.ret) = Text(call.a) \o Text(call.b)
        ELSE /\ Raised("Cannot add %s and %s",
                       <<Label(Tag(call.a)), Label(Tag(call.b))>>)
             /\ Len(mem) = call.brk

C6_Witness ==
    /\ call.fn = "yar_add"
    /\ IsStr(call.a) /\ Text(call.a) = <<"a", "b">>
    /\ IsStr(call.b) /\ Text(call.b) = <<"c">>
    /\ Text(call.ret) = <<"a", "b", "c">>

\* C7: yar_subtract, yar_multiply, yar_divide, yar_modulo, yar_lt, yar_gt,
\* yar_lte and yar_gte return a result only for two Numbers, yar_negate only
\* for a Number and yar_len only for a String (its byte length, as a
\* Number); for any other operand they raise the fatal error of the
\* operation with the type names of the operands and return nothing, and
\* for the operands they accept they raise no type mismatch.
NumberOnly ==
    {"yar_subtract", "yar_multiply", "yar_divide", "yar_modulo",
     "yar_lt", "yar_gt", "yar_lte", "yar_gte"}

RaisedMismatch == Raised(Mismatch[call.fn], OperandLabels) /\ Len(mem) = call.brk

C7_OperandTypes ==
    /\ call.fn \in NumberOnly =>
            IF IsNum(call.a) /\ IsNum(call.b)
            THEN /\ ~RaisedMismatch
                 /\ call.fn \notin {"yar_divide", "yar_modulo"} => Returned
            ELSE RaisedMismatch
    /\ call.fn = "yar_negate" =>
            IF IsNum(call.a)
            THEN /\ Returned
                 /\ IsNum(call.ret)
                 /\ mem[call.ret].number = DNeg(mem[call.a].number)
            ELSE RaisedMismatch
    /\ call.fn = "yar_len" =>
            IF IsStr(call.a)
            THEN /\ Returned
                 /\ IsNum(call.ret)
                 /\ mem[call.ret].number = Rat(Len(Text(call.a)), 1)
            ELSE RaisedMismatch

C7_Witness ==
    /\ call.fn = "yar_len"
    /\ IsNum(call.a)
    /\ Raised("len() requires string, got %s", <<<<"n", "u", "m", "b", "e", "r">>>>)

\* C8: yar_divide raises the type mismatch when an operand is not a Number,
\* also when the other one is Number(0); for two Numbers and a divisor equal
\* to zero it raises exactly "Division by zero" and creates no Value; for a
\* divisor that is not zero it returns Number(a / b).
C8_Divide ==
    call.fn = "yar_divide" =>
        IF ~(IsNum(call.a) /\ IsNum(call.b))
        THEN /\ Raised("Cannot divide %s and %s", OperandLabels)
             /\ Len(mem) = call.brk
        ELSE IF IsZero(mem[call.b].number)
        THEN /\ Raised("Division by zero", <<>>)
             /\ Len(mem) = call.brk
        ELSE /\ Returned
             /\ IsNum(call.ret)
             /\ mem[call.ret].number = DDiv(mem[call.a].number, mem[call.b].number)

C8_Witness ==
    /\ call.fn = "yar_divide"
    /\ IsNum(call.a) /\ mem[call.a].number = Rat(79, 10)
    /\ IsNum(call.b) /\ mem[call.b].number = PZero
    /\ Raised("Division by zero", <<>>)

\* C9: yar_modulo on two Numbers returns an integral Number, the remainder
\* of the operands truncated toward zero, with the sign of the dividend.
Integral(x) == x.k = "fin" /\ x.d = 1

C9_ModuloTruncates ==
    call.fn = "yar_modulo" /\ IsNum(call.a) /\ IsNum(call.b) =>
        /\ Returned
        /\ IsNum(call.ret)
        /\ Integral(mem[call.ret].number)
        /\ RemDefined(mem[call.a].number, mem[call.b].number) =>
                mem[call.ret].number =
                    Rat(LongRem(ToLong(mem[call.a].number), ToLong(mem[call.b].number)), 1)

\* What holds of yar_modulo: where (long)a % (long)b is defined, it returns
\* that remainder, with the sign of the dividend; modulo(7.9, 2.5) is 1.
ModuloWhereDefined ==
    /\ call.fn = "yar_modulo" /\ IsNum(call.a) /\ IsNum(call.b)
           /\ RemDefined(mem[call.a].number, mem[call.b].number) =>
            /\ Returned
            /\ IsNum(call.ret)
            /\ Integral(mem[call.ret].number)
            /\ mem[call.a].number = Rat(79, 10) /\ mem[call.b].number = Rat(5, 2) =>
                    mem[call.ret].number = Rat(1, 1)
            /\ mem[call.ret].number # PZero =>
                    mem[call.ret].number.s = mem[call.a].number.s

ModuloWitness ==
    /\ call.fn = "yar_modulo"
    /\ IsNum(call.a) /\ mem[call.a].number = Rat(79, 10)
    /\ IsNum(call.b) /\ mem[call.b].number = Rat(5, 2)
    /\ Returned

\* C10: no call changes a block of the heap that existed before it; a value
\* a call returns is at a fresh address, and so is the storage of a String
\* or Function it returns; a call that ends the process has allocated
\* nothing and written nothing to stdout.
C10_Step ==
    /\ Len(mem') >= Len(mem)
    /\ \A i \in 1..Len(mem) : mem'[i] = mem[i]
    /\ call'.ret # NULL =>
            /\ call'.ret > Len(mem)
            /\ mem'[call'.ret].type = VAL_STRING => mem'[call'.ret].string > Len(mem)
            /\ mem'[call'.ret].type = VAL_FUNCTION => mem'[call'.ret].function > Len(mem)
    /\ status' # "running" => mem' = mem /\ out' = out

C10_ValuesImmutable == [][C10_Step]_vars

C10_Witness ==
    /\ call.fn = "yar_add"
    /\ call.a = call.b
    /\ IsStr(call.a) /\ Text(call.a) = <<"a", "b">>
    /\ Returned
    /\ mem[call.ret].string # mem[call.a].string
    /\ Text(call.ret) = <<"a", "b", "a", "b">>

====
